---- MODULE Spec2Model ----
(***************************************************************************)
(* A model of ndcube's coordinate-aware cube (ndcube/ndcube.py: NDCube)    *)
(* and of the aligned-axes helpers of NDCollection                         *)
(* (ndcube/utils/collection.py).                                           *)
(*                                                                         *)
(* Conventions.                                                            *)
(*  - Python sequences are TLA+ sequences; a Python index i (0-based) is   *)
(*    kept as the number i and read with At(seq, i), which is seq[i + 1].  *)
(*  - A pixel value is a fixed-point number with one binary digit after    *)
(*    the point: the integer n stands for n/2 pixel.  World values are     *)
(*    integers.  The external transform (astropy's WCS) is a linear one    *)
(*    with CDELT = 2 world units per pixel, so that one world unit is half *)
(*    a pixel.                                                             *)
(*  - An astropy Quantity is a record [value, unit].                       *)
(***************************************************************************)
EXTENDS Integers, Sequences, FiniteSets, TLC

VARIABLES
    pc,         \* where the client of the cube is: "new", "ready", "returned", "failed"
    init_args,  \* the arguments of NDCube.__init__: data, wcs, missing_axis
    self,       \* the NDCube object: its attributes
    call,       \* the method call that has just returned: arguments and outcome
    data,       \* _sanitize_aligned_axes: the members, each by its dimensions
    aligned_axes,   \* _sanitize_aligned_axes: the aligned_axes argument
    sanitized,  \* _sanitize_aligned_axes: what it raised or returned
    canonical,  \* _update_aligned_axes: the collection's aligned_axes (a dict,
                \* here the sequence of its values in key order)
    drop_aligned_axes_indices,  \* _update_aligned_axes: the caller's numpy array
    new_aligned_axes,           \* _update_aligned_axes: what it returned
    threads     \* the threads that are in _update_aligned_axes at one time:
                \* for each its place in the function and its local variables

cube_vars == <<init_args, self, call>>
sanitize_vars == <<data, aligned_axes, sanitized>>
update_vars == <<canonical, drop_aligned_axes_indices, new_aligned_axes, threads>>
vars == <<pc, cube_vars, sanitize_vars, update_vars>>

----------------------------------------------------------------------------
(* Bounds of the model. *)

\* Largest number of WCS (system) axes, S.
MaxNaxis == 3
\* Largest number of data (storage) axes, R.
MaxNdim == 2
\* Largest world or pixel magnitude a caller passes in.
MaxCoord == 1
\* Largest number of members of a collection, N.
MaxCubes == 2
\* Largest number of axes of a member of a collection.
MaxRank == 2
\* Largest number of aligned axes of a collection that is sliced, k.
MaxAligned == 3
\* Largest magnitude of a width of the region a caller crops to.
MaxWidth == 4
\* The highest world value of a crop's lower corner.
MaxCorner == 2
\* Largest number of extra coordinates a cube is constructed with.
MaxExtra == 2

----------------------------------------------------------------------------
(* Helpers for Python's sequences. *)

At(seq, i) == seq[i + 1]

InRange(seq, i) == i >= 0 /\ i < Len(seq)

\* seq[::-1]
Reversed(seq) == [i \in 1..Len(seq) |-> seq[Len(seq) + 1 - i]]

\* All sequences over S of length n, and of length at most n.
SeqsOfLen(S, n) == [1..n -> S]
SeqsUpTo(S, n) == UNION {SeqsOfLen(S, m) : m \in 0..n}

----------------------------------------------------------------------------
(* astropy.units.Quantity, as far as the cube uses it. *)

Quantity(v, unit) == [value |-> v, unit |-> unit]

pix == "pix"

\* The declared units of the WCS axes (wcs.wcs.cunit), by WCS axis number.
CUnitNames == <<"arcsec", "Angstrom", "s", "m", "K", "Hz">>

\* The types of the WCS axes (wcs.wcs.ctype), by WCS axis number.
CTypeNames == <<"HPLN-TAN", "HPLT-TAN", "WAVE", "TIME", "TEMP", "FREQ">>

\* q.to(unit): the value of q in that unit.  Only the unit itself is
\* convertible here; any other raises astropy's UnitConversionError.
Convertible(q, unit) == q.unit = unit

\* a + b of two quantities: in the unit of a.
QAdd(a, b) == Quantity(a.value + b.value, a.unit)

----------------------------------------------------------------------------
(* The WCS: astropy.wcs.WCS, an external collaborator.  The one used here  *)
(* is linear and separable, CRPIX (1-based reference pixel) s and CRVAL    *)
(* 2s for the WCS axis numbered s - 1.                                     *)

WCS(S) ==
    [naxis |-> S,
     crpix |-> [s \in 1..S |-> s],
     crval |-> [s \in 1..S |-> 2 * s],
     cunit |-> [s \in 1..S |-> CUnitNames[s]],
     ctype |-> [s \in 1..S |-> CTypeNames[s]]]

\* wcs.all_pix2world(*args, origin): one world value per WCS axis.  A pixel
\* p counted from origin is the FITS pixel p + 1 - origin.
all_pix2world(w, args, origin) ==
    [s \in 1..w.naxis |-> w.crval[s] + (args[s] - 2 * (w.crpix[s] - 1 + origin))]

\* wcs.all_world2pix(*args, origin): one pixel value per WCS axis.
all_world2pix(w, args, origin) ==
    [s \in 1..w.naxis |-> 2 * (w.crpix[s] - 1 + origin) + (args[s] - w.crval[s])]

\* A plausible slip in lines 277-278: a tie goes away from zero, as C's
\* round() does.
rint_half_away_from_zero(x2) ==
    LET f == x2 \div 2
    IN  IF x2 % 2 = 0 THEN f
        ELSE IF x2 > 0 THEN f + 1 ELSE f

\* numpy.rint of a fixed-point pixel value: to the nearest integer, a tie
\* to the even one.
rint(x2) ==
    LET f == x2 \div 2
    IN  IF x2 % 2 = 0 THEN f
        ELSE IF f % 2 = 0 THEN f ELSE f + 1

----------------------------------------------------------------------------
(* NDCube.__init__ *)

\* self.missing_axis: lines 174-177.
InitMissingAxis(args) ==
    IF args.missing_axis_is_None
    THEN [s \in 1..args.wcs.naxis |-> FALSE]
    ELSE args.missing_axis

\* The count of lines 179-182.
CountNonMissing(flags) == Cardinality({s \in 1..Len(flags) : ~flags[s]})

\* Lines 178-185: whether __init__ raises ValueError.  (The code compares
\* the small ints with "is not"; CPython keeps one object per small int, so
\* this is inequality.)
InitRaises(args) ==
    /\ Len(args.data_shape) # args.wcs.naxis
    /\ CountNonMissing(InitMissingAxis(args)) # Len(args.data_shape)

\* The WCS axes that are not missing, highest first: the order in which
\* they are paired with the data axes 0, 1, ...
RECURSIVE Descending(_)
Descending(axes) ==
    IF axes = {} THEN <<>>
    ELSE LET m == CHOOSE a \in axes : \A b \in axes : b <= a
         IN  <<m>> \o Descending(axes \ {m})

NonMissing(missing_axis) ==
    Descending({s \in 0..(Len(missing_axis) - 1) : ~At(missing_axis, s)})

\* cube_utils.data_axis_to_wcs_axis and cube_utils.wcs_axis_to_data_axis:
\* the WCS axis paired with a data axis, and back (None, here -1, for a
\* missing WCS axis).
data_axis_to_wcs_axis(data_axis, missing_axis) ==
    At(NonMissing(missing_axis), data_axis)

wcs_axis_to_data_axis(wcs_axis, missing_axis) ==
    IF At(missing_axis, wcs_axis) THEN -1
    ELSE CHOOSE d \in 0..(Len(NonMissing(missing_axis)) - 1) :
            At(NonMissing(missing_axis), d) = wcs_axis

\* cube_utils._format_input_extra_coords_to_extra_coords_wcs_axis, from
\* entry n on: the entries (name, data axis, value) are stored by name with
\* the WCS axis of their data axis.  The dict is the sequence of its items.
RECURSIVE FormatLoop(_, _, _, _, _)
FormatLoop(extra_coords, missing_axis, data_shape, n, st) ==
    IF n > Len(extra_coords) \/ st.raised # "none" THEN st
    ELSE
        LET coord == extra_coords[n]
        IN  IF \E m \in 1..Len(st.value) : st.value[m].name = coord.name
            THEN [st EXCEPT !.raised = "NameConflict"]
            ELSE IF ~InRange(NonMissing(missing_axis), coord.axis)
                    \/ ~InRange(data_shape, coord.axis)
            THEN [st EXCEPT !.raised = "IndexError"]
            ELSE IF Len(coord.value) # At(data_shape, coord.axis)
            THEN [st EXCEPT !.raised = "ShapeMismatch"]
            ELSE FormatLoop(extra_coords, missing_axis, data_shape, n + 1,
                    [st EXCEPT !.value = Append(@,
                        [name |-> coord.name,
                         wcs_axis |-> data_axis_to_wcs_axis(coord.axis, missing_axis),
                         value |-> coord.value])])

\* Lines 186-191: self._extra_coords_wcs_axis; is_None: it is None.
InitExtraCoords(args) ==
    IF Len(args.extra_coords) = 0
    THEN [raised |-> "none", is_None |-> TRUE, value |-> <<>>]
    ELSE LET st == FormatLoop(args.extra_coords, InitMissingAxis(args),
                              args.data_shape, 1, [raised |-> "none", value |-> <<>>])
         IN  [raised |-> st.raised, is_None |-> FALSE,
              value |-> IF st.raised = "none" THEN st.value ELSE <<>>]

NoSelf ==
    [missing_axis |-> <<>>, data_shape |-> <<>>, wcs |-> WCS(0),
     extra_coords_wcs_axis |-> [is_None |-> TRUE, value |-> <<>>]]

NewSelf(args) ==
    [missing_axis |-> InitMissingAxis(args),
     data_shape |-> args.data_shape,
     wcs |-> args.wcs,
     extra_coords_wcs_axis |->
        [is_None |-> InitExtraCoords(args).is_None,
         value |-> InitExtraCoords(args).value]]

----------------------------------------------------------------------------
(* NDCube.dimensions and NDCube.extra_coords *)

\* Lines 257-265: the shape of the data in pix and the types of the WCS axes
\* that are not missing, in the order of the data axes.
dimensions(cube) ==
    [shape |-> [i \in 1..Len(cube.data_shape) |-> Quantity(cube.data_shape[i], pix)],
     axis_types |->
        LET kept == Reversed(NonMissing(cube.missing_axis))
        IN  Reversed([n \in 1..Len(kept) |-> At(cube.wcs.ctype, kept[n])])]

\* A plausible slip in lines 290-292: the stored WCS axis is returned as it
\* is, not converted back to the data axis.
extra_coords_returns_wcs_axis(cube) ==
    IF cube.extra_coords_wcs_axis.is_None \/ Len(cube.extra_coords_wcs_axis.value) = 0
    THEN [is_None |-> TRUE, value |-> <<>>]
    ELSE [is_None |-> FALSE,
          value |-> [n \in 1..Len(cube.extra_coords_wcs_axis.value) |->
                        LET entry == cube.extra_coords_wcs_axis.value[n]
                        IN  [name |-> entry.name,
                             axis |-> entry.wcs_axis,
                             value |-> entry.value]]]

\* Lines 282-294: None, or by name the data axis and the value of every
\* stored entry.
extra_coords(cube) ==
    IF cube.extra_coords_wcs_axis.is_None \/ Len(cube.extra_coords_wcs_axis.value) = 0
    THEN [is_None |-> TRUE, value |-> <<>>]
    ELSE [is_None |-> FALSE,
          value |-> [n \in 1..Len(cube.extra_coords_wcs_axis.value) |->
                        LET entry == cube.extra_coords_wcs_axis.value[n]
                        IN  [name |-> entry.name,
                             axis |-> wcs_axis_to_data_axis(entry.wcs_axis,
                                                            cube.missing_axis),
                             value |-> entry.value]]]

----------------------------------------------------------------------------
(* NDCube.pixel_to_world and NDCube.world_to_pixel *)

LoopStart == [list_arg |-> <<>>, indexed_not_as_one |-> <<>>,
              quantity_index |-> 0, raised |-> "none"]

\* The loop of lines 201-211, from iteration i on.
RECURSIVE P2WLoop(_, _, _, _, _)
P2WLoop(cube, quantity_axis_list, origin, i, st) ==
    IF i >= Len(cube.missing_axis) \/ st.raised # "none" THEN st
    ELSE
        LET wcs_index == cube.wcs.naxis - 1 - i
        IN  IF At(cube.missing_axis, wcs_index)
            THEN P2WLoop(cube, quantity_axis_list, origin, i + 1,
                    [st EXCEPT !.list_arg =
                        Append(@, 2 * (At(cube.wcs.crpix, wcs_index) - 1 + origin))])
            ELSE IF ~InRange(quantity_axis_list, st.quantity_index)
            THEN [st EXCEPT !.raised = "IndexError"]
            ELSE IF ~Convertible(At(quantity_axis_list, st.quantity_index), pix)
            THEN [st EXCEPT !.raised = "UnitConversionError"]
            ELSE P2WLoop(cube, quantity_axis_list, origin, i + 1,
                    [st EXCEPT
                        !.list_arg = Append(@, At(quantity_axis_list, st.quantity_index).value),
                        !.quantity_index = @ + 1,
                        !.indexed_not_as_one = Append(@, wcs_index)])

Raised(kind) == [raised |-> kind, list_arguments |-> <<>>, result |-> <<>>]

\* A plausible slip in lines 215-216: the answer collects every WCS axis,
\* the missing ones too.
pixel_to_world_every_axis(cube, quantity_axis_list, origin) ==
    LET st == P2WLoop(cube, quantity_axis_list, origin, 0, LoopStart)
    IN  IF st.raised # "none" THEN Raised(st.raised)
        ELSE
            LET list_arguments == Reversed(st.list_arg)
                out == all_pix2world(cube.wcs, list_arguments, origin)
                result == [n \in 1..cube.wcs.naxis |->
                              Quantity(out[n], cube.wcs.cunit[n])]
            IN  [raised |-> "none", list_arguments |-> list_arguments,
                 result |-> Reversed(result)]

\* A plausible slip in line 217: the answer is returned as collected, in
\* the order of the WCS axes.
pixel_to_world_in_wcs_order(cube, quantity_axis_list, origin) ==
    LET st == P2WLoop(cube, quantity_axis_list, origin, 0, LoopStart)
    IN  IF st.raised # "none" THEN Raised(st.raised)
        ELSE
            LET list_arguments == Reversed(st.list_arg)
                out == all_pix2world(cube.wcs, list_arguments, origin)
                idx == Reversed(st.indexed_not_as_one)
                result == [n \in 1..Len(idx) |->
                              Quantity(At(out, idx[n]), At(cube.wcs.cunit, idx[n]))]
            IN  [raised |-> "none", list_arguments |-> list_arguments,
                 result |-> result]

\* Lines 196-217.
pixel_to_world(cube, quantity_axis_list, origin) ==
    LET st == P2WLoop(cube, quantity_axis_list, origin, 0, LoopStart)
    IN  IF st.raised # "none" THEN Raised(st.raised)
        ELSE
            LET list_arguments == Reversed(st.list_arg)
                out == all_pix2world(cube.wcs, list_arguments, origin)
                idx == Reversed(st.indexed_not_as_one)
                result == [n \in 1..Len(idx) |->
                              Quantity(At(out, idx[n]), At(cube.wcs.cunit, idx[n]))]
            IN  [raised |-> "none", list_arguments |-> list_arguments,
                 result |-> Reversed(result)]

\* The loop of lines 224-235, from iteration i on.
RECURSIVE W2PLoop(_, _, _, _, _)
W2PLoop(cube, quantity_axis_list, origin, i, st) ==
    IF i >= Len(cube.missing_axis) \/ st.raised # "none" THEN st
    ELSE
        LET wcs_index == cube.wcs.naxis - 1 - i
        IN  IF At(cube.missing_axis, wcs_index)
            THEN W2PLoop(cube, quantity_axis_list, origin, i + 1,
                    [st EXCEPT !.list_arg =
                        Append(@, At(cube.wcs.crval, wcs_index) + 1 - origin)])
            ELSE IF ~InRange(quantity_axis_list, st.quantity_index)
            THEN [st EXCEPT !.raised = "IndexError"]
            ELSE IF ~Convertible(At(quantity_axis_list, st.quantity_index),
                                 At(cube.wcs.cunit, wcs_index))
            THEN [st EXCEPT !.raised = "UnitConversionError"]
            ELSE W2PLoop(cube, quantity_axis_list, origin, i + 1,
                    [st EXCEPT
                        !.list_arg = Append(@, At(quantity_axis_list, st.quantity_index).value),
                        !.quantity_index = @ + 1,
                        !.indexed_not_as_one = Append(@, wcs_index)])

\* A plausible slip in line 241: the answer is returned as collected, in
\* the order of the WCS axes.
world_to_pixel_in_wcs_order(cube, quantity_axis_list, origin) ==
    LET st == W2PLoop(cube, quantity_axis_list, origin, 0, LoopStart)
    IN  IF st.raised # "none" THEN Raised(st.raised)
        ELSE
            LET list_arguments == Reversed(st.list_arg)
                out == all_world2pix(cube.wcs, list_arguments, origin)
                idx == Reversed(st.indexed_not_as_one)
                result == [n \in 1..Len(idx) |-> Quantity(At(out, idx[n]), pix)]
            IN  [raised |-> "none", list_arguments |-> list_arguments,
                 result |-> result]

\* Lines 219-241.
world_to_pixel(cube, quantity_axis_list, origin) ==
    LET st == W2PLoop(cube, quantity_axis_list, origin, 0, LoopStart)
    IN  IF st.raised # "none" THEN Raised(st.raised)
        ELSE
            LET list_arguments == Reversed(st.list_arg)
                out == all_world2pix(cube.wcs, list_arguments, origin)
                idx == Reversed(st.indexed_not_as_one)
                result == [n \in 1..Len(idx) |-> Quantity(At(out, idx[n]), pix)]
            IN  [raised |-> "none", list_arguments |-> list_arguments,
                 result |-> Reversed(result)]

----------------------------------------------------------------------------
(* NDCube.crop_by_coords *)

CropRaised(kind) ==
    [raised |-> kind, lower_pixels |-> <<>>, upper_pixels |-> <<>>, slic |-> <<>>,
     shape |-> <<>>]

\* Line 279: slice(start, stop) of an axis of n elements selects the
\* indices from SliceStart up to, not including, SliceStop: a negative
\* bound counts from the end of the axis, and both are clipped to the axis.
SliceBound(bound, n) ==
    IF bound < 0
    THEN (IF bound + n < 0 THEN 0 ELSE bound + n)
    ELSE (IF bound > n THEN n ELSE bound)

SliceIndices(sl, n) ==
    {k \in 0..(n - 1) : SliceBound(sl.start, n) <= k /\ k < SliceBound(sl.stop, n)}

\* Line 280: self[slic].  The cube hands the slices to its data array, one
\* per axis; the cropped cube is known here by the shape of its data.
getitem(cube, slic) ==
    [i \in 1..Len(cube.data_shape) |->
        Cardinality(SliceIndices(slic[i], cube.data_shape[i]))]

\* Line 274-275: [lower_left_corner[i] + dimension_widths[i] for i in
\* range(n_dim)]; what the first failing i raises, "none" if none fails.
RECURSIVE UpperCornerRaises(_, _, _, _)
UpperCornerRaises(lower_left_corner, dimension_widths, n_dim, i) ==
    IF i >= n_dim THEN "none"
    ELSE IF ~InRange(lower_left_corner, i) \/ ~InRange(dimension_widths, i)
    THEN "IndexError"
    ELSE IF ~Convertible(At(dimension_widths, i), At(lower_left_corner, i).unit)
    THEN "UnitConversionError"
    ELSE UpperCornerRaises(lower_left_corner, dimension_widths, n_dim, i + 1)

\* Line 269: the chained comparison a != b != c is (a != b) and (b != c).
CropLengthCheckFails(lower_left_corner, dimension_widths, n_dim) ==
    /\ Len(lower_left_corner) # Len(dimension_widths)
    /\ Len(dimension_widths) # n_dim

\* A plausible slip in lines 274-275: the upper corner is taken to be
\* dimension_widths itself, the lower corner not added.
crop_by_coords_upper_is_width(cube, lower_left_corner, dimension_widths) ==
    LET n_dim == Len(cube.data_shape)
        lower == world_to_pixel(cube, lower_left_corner, 0)
        corner_raises ==
            UpperCornerRaises(lower_left_corner, dimension_widths, n_dim, 0)
        corner == [i \in 1..n_dim |-> dimension_widths[i]]
        upper == world_to_pixel(cube, corner, 0)
        lower_pixels == [i \in 1..Len(lower.result) |-> rint(lower.result[i].value)]
        upper_pixels == [i \in 1..Len(upper.result) |-> rint(upper.result[i].value)]
    IN  IF CropLengthCheckFails(lower_left_corner, dimension_widths, n_dim)
        THEN CropRaised("ValueError")
        ELSE IF lower.raised # "none" THEN CropRaised(lower.raised)
        ELSE IF corner_raises # "none" THEN CropRaised(corner_raises)
        ELSE IF upper.raised # "none" THEN CropRaised(upper.raised)
        ELSE IF Len(lower_pixels) < n_dim \/ Len(upper_pixels) < n_dim
        THEN CropRaised("IndexError")
        ELSE LET slic == [i \in 1..n_dim |->
                            [start |-> lower_pixels[i], stop |-> upper_pixels[i]]]
             IN  [raised |-> "none",
                  lower_pixels |-> lower_pixels,
                  upper_pixels |-> upper_pixels,
                  slic |-> slic,
                  shape |-> getitem(cube, slic)]

\* A plausible slip in lines 273-274: the corners are converted to pixels
\* counted from 1, as FITS counts them.
crop_by_coords_origin_one(cube, lower_left_corner, dimension_widths) ==
    LET n_dim == Len(cube.data_shape)
        lower == world_to_pixel(cube, lower_left_corner, 1)
        corner_raises ==
            UpperCornerRaises(lower_left_corner, dimension_widths, n_dim, 0)
        corner == [i \in 1..n_dim |-> QAdd(lower_left_corner[i], dimension_widths[i])]
        upper == world_to_pixel(cube, corner, 1)
        lower_pixels == [i \in 1..Len(lower.result) |-> rint(lower.result[i].value)]
        upper_pixels == [i \in 1..Len(upper.result) |-> rint(upper.result[i].value)]
    IN  IF CropLengthCheckFails(lower_left_corner, dimension_widths, n_dim)
        THEN CropRaised("ValueError")
        ELSE IF lower.raised # "none" THEN CropRaised(lower.raised)
        ELSE IF corner_raises # "none" THEN CropRaised(corner_raises)
        ELSE IF upper.raised # "none" THEN CropRaised(upper.raised)
        ELSE IF Len(lower_pixels) < n_dim \/ Len(upper_pixels) < n_dim
        THEN CropRaised("IndexError")
        ELSE LET slic == [i \in 1..n_dim |->
                            [start |-> lower_pixels[i], stop |-> upper_pixels[i]]]
             IN  [raised |-> "none",
                  lower_pixels |-> lower_pixels,
                  upper_pixels |-> upper_pixels,
                  slic |-> slic,
                  shape |-> getitem(cube, slic)]

\* Lines 267-280.  The slicing itself, self[slic], is the storage's.
crop_by_coords(cube, lower_left_corner, dimension_widths) ==
    LET n_dim == Len(cube.data_shape)
        lower == world_to_pixel(cube, lower_left_corner, 0)
        corner_raises ==
            UpperCornerRaises(lower_left_corner, dimension_widths, n_dim, 0)
        corner == [i \in 1..n_dim |-> QAdd(lower_left_corner[i], dimension_widths[i])]
        upper == world_to_pixel(cube, corner, 0)
        lower_pixels == [i \in 1..Len(lower.result) |-> rint(lower.result[i].value)]
        upper_pixels == [i \in 1..Len(upper.result) |-> rint(upper.result[i].value)]
    IN  IF CropLengthCheckFails(lower_left_corner, dimension_widths, n_dim)
        THEN CropRaised("ValueError")
        ELSE IF lower.raised # "none" THEN CropRaised(lower.raised)
        ELSE IF corner_raises # "none" THEN CropRaised(corner_raises)
        ELSE IF upper.raised # "none" THEN CropRaised(upper.raised)
        ELSE IF Len(lower_pixels) < n_dim \/ Len(upper_pixels) < n_dim
        THEN CropRaised("IndexError")
        ELSE LET slic == [i \in 1..n_dim |->
                            [start |-> lower_pixels[i], stop |-> upper_pixels[i]]]
             IN  [raised |-> "none",
                  lower_pixels |-> lower_pixels,
                  upper_pixels |-> upper_pixels,
                  slic |-> slic,
                  shape |-> getitem(cube, slic)]

----------------------------------------------------------------------------
(* The inputs. *)

\* The data arrays: every rank up to MaxNdim, four elements along each axis.
DataShapes == {[i \in 1..R |-> 4] : R \in 1..MaxNdim}

\* extra_coords: None (here the empty list, which __init__ takes alike), or
\* one coordinate along the last data axis, a value per element of it.
ExtraCoordsArgs(data_shape) ==
    {<<>>,
     <<[name |-> "time",
        axis |-> Len(data_shape) - 1,
        value |-> [n \in 1..data_shape[Len(data_shape)] |-> n - 1]]>>}

\* missing_axis: None, or a list of bool, one per WCS axis.
InitArgs ==
    UNION {{[data_shape |-> sh, wcs |-> WCS(S),
             missing_axis_is_None |-> TRUE, missing_axis |-> <<>>,
             extra_coords |-> ec] :
                S \in 1..MaxNaxis, ec \in ExtraCoordsArgs(sh)} :
           sh \in DataShapes}
    \cup
    UNION {{[data_shape |-> sh, wcs |-> WCS(S),
             missing_axis_is_None |-> FALSE, missing_axis |-> ma,
             extra_coords |-> ec] :
                ma \in SeqsOfLen(BOOLEAN, S), ec \in ExtraCoordsArgs(sh)} :
           <<sh, S>> \in DataShapes \X (1..MaxNaxis)}

CoordValues == 0..MaxCoord

\* The WCS axes that are not missing, highest first: the order in which the
\* loops of pixel_to_world and world_to_pixel take the caller's values.
NonMissingAxes(cube) == NonMissing(cube.missing_axis)

\* The lists a caller passes: up to one value more than the cube has data
\* axes.  Pixel values are in pix; the world value at position i is in the
\* unit of the WCS axis that takes it (pix where no axis takes it).
PixelLists(cube) ==
    {[i \in 1..Len(v) |-> Quantity(v[i], pix)] :
        v \in SeqsUpTo(CoordValues, Len(cube.data_shape) + 1)}

WorldUnit(cube, i) ==
    IF i <= Len(NonMissingAxes(cube))
    THEN At(cube.wcs.cunit, NonMissingAxes(cube)[i])
    ELSE pix

WorldLists(cube) ==
    {[i \in 1..Len(v) |-> Quantity(v[i], WorldUnit(cube, i))] :
        v \in SeqsUpTo(CoordValues, Len(cube.data_shape) + 1)}

----------------------------------------------------------------------------
(* The cube and its client. *)

NoCall ==
    [op |-> "none", quantity_axis_list |-> <<>>, dimension_widths |-> <<>>,
     origin |-> 0, raised |-> "none", list_arguments |-> <<>>, result |-> <<>>,
     lower_pixels |-> <<>>, upper_pixels |-> <<>>, slic |-> <<>>, shape |-> <<>>,
     world |-> <<>>, value |-> <<>>]

Init ==
    /\ pc = "new"
    /\ init_args \in InitArgs
    /\ self = NoSelf
    /\ call = NoCall
    /\ data = <<>> /\ aligned_axes = <<>> /\ sanitized = <<>>
    /\ canonical = <<>> /\ drop_aligned_axes_indices = <<>>
    /\ new_aligned_axes = <<>> /\ threads = <<>>

\* NDCube(data, wcs, missing_axis=...)
Construct ==
    /\ pc = "new"
    /\ IF InitRaises(init_args) \/ InitExtraCoords(init_args).raised # "none"
       THEN /\ pc' = "failed"
            /\ self' = self
       ELSE /\ pc' = "ready"
            /\ self' = NewSelf(init_args)
    /\ UNCHANGED <<init_args, call, sanitize_vars, update_vars>>

\* cube.pixel_to_world(quantity_axis_list, origin)
PixelToWorld ==
    /\ pc = "ready"
    /\ \E quantity_axis_list \in PixelLists(self), origin \in {0, 1} :
        LET r == pixel_to_world(self, quantity_axis_list, origin)
        IN  call' = [NoCall EXCEPT
                        !.op = "pixel_to_world",
                        !.quantity_axis_list = quantity_axis_list,
                        !.origin = origin,
                        !.raised = r.raised,
                        !.list_arguments = r.list_arguments,
                        !.result = r.result]
    /\ pc' = "returned"
    /\ UNCHANGED <<init_args, self, sanitize_vars, update_vars>>

\* cube.world_to_pixel(quantity_axis_list, origin)
WorldToPixel ==
    /\ pc = "ready"
    /\ \E quantity_axis_list \in WorldLists(self), origin \in {0, 1} :
        LET r == world_to_pixel(self, quantity_axis_list, origin)
        IN  call' = [NoCall EXCEPT
                        !.op = "world_to_pixel",
                        !.quantity_axis_list = quantity_axis_list,
                        !.origin = origin,
                        !.raised = r.raised,
                        !.list_arguments = r.list_arguments,
                        !.result = r.result]
    /\ pc' = "returned"
    /\ UNCHANGED <<init_args, self, sanitize_vars, update_vars>>

\* cube.crop_by_coords(lower_left_corner, dimension_widths)
CropByCoords ==
    /\ pc = "ready"
    /\ \E lower_left_corner \in WorldLists(self), dimension_widths \in WorldLists(self) :
        LET r == crop_by_coords(self, lower_left_corner, dimension_widths)
        IN  call' = [NoCall EXCEPT
                        !.op = "crop_by_coords",
                        !.quantity_axis_list = lower_left_corner,
                        !.dimension_widths = dimension_widths,
                        !.raised = r.raised,
                        !.lower_pixels = r.lower_pixels,
                        !.upper_pixels = r.upper_pixels,
                        !.slic = r.slic,
                        !.shape = r.shape]
    /\ pc' = "returned"
    /\ UNCHANGED <<init_args, self, sanitize_vars, update_vars>>

\* cube.world_to_pixel(cube.pixel_to_world(quantity_axis_list, origin), origin)
RoundTrip ==
    /\ pc = "ready"
    /\ \E quantity_axis_list \in PixelLists(self), origin \in {0, 1} :
        LET there == pixel_to_world(self, quantity_axis_list, origin)
            back == world_to_pixel(self, there.result, origin)
        IN  call' = [NoCall EXCEPT
                        !.op = "round_trip",
                        !.quantity_axis_list = quantity_axis_list,
                        !.origin = origin,
                        !.world = there.result,
                        !.raised = IF there.raised # "none" THEN there.raised
                                   ELSE back.raised,
                        !.result = IF there.raised # "none" THEN <<>>
                                   ELSE back.result]
    /\ pc' = "returned"
    /\ UNCHANGED <<init_args, self, sanitize_vars, update_vars>>

\* cube.dimensions
Dimensions ==
    /\ pc = "ready"
    /\ call' = [NoCall EXCEPT !.op = "dimensions", !.value = dimensions(self)]
    /\ pc' = "returned"
    /\ UNCHANGED <<init_args, self, sanitize_vars, update_vars>>

\* A plausible slip in lines 289-293: the data axis is written into the
\* stored entry, where the WCS axis was.
ExtraCoordsRenumbersStored ==
    /\ pc = "ready"
    /\ call' = [NoCall EXCEPT !.op = "extra_coords", !.value = extra_coords(self)]
    /\ self' = [self EXCEPT !.extra_coords_wcs_axis.value =
                    [n \in 1..Len(@) |->
                        [@[n] EXCEPT !.wcs_axis =
                            wcs_axis_to_data_axis(@, self.missing_axis)]]]
    /\ pc' = "returned"
    /\ UNCHANGED <<init_args, sanitize_vars, update_vars>>

\* cube.extra_coords
ExtraCoords ==
    /\ pc = "ready"
    /\ call' = [NoCall EXCEPT !.op = "extra_coords", !.value = extra_coords(self)]
    /\ pc' = "returned"
    /\ UNCHANGED <<init_args, self, sanitize_vars, update_vars>>

\* The caller has the value (or the exception) and goes on to its next call.
Return ==
    /\ pc = "returned"
    /\ pc' = "ready"
    /\ call' = NoCall
    /\ UNCHANGED <<init_args, self, sanitize_vars, update_vars>>

Next ==
    \/ Construct
    \/ PixelToWorld
    \/ WorldToPixel
    \/ CropByCoords
    \/ RoundTrip
    \/ Dimensions
    \/ ExtraCoords
    \/ Return

Spec == Init /\ [][Next]_vars

----------------------------------------------------------------------------
(* Cropping to a region: crop_by_coords with one world value per data axis *)
(* in both lists, the widths of either sign.                               *)

WidthValues == (0 - MaxWidth)..MaxWidth

CornerValues == 0..MaxCorner

\* The world extent of n pixels of an axis: two world units a pixel.
FullExtent(n) == 2 * n

\* lower_left_corner: one world value per data axis, each in the unit of
\* the WCS axis that takes it; the same number on every axis (CropByCoords
\* has the lists whose numbers differ), the widths differing freely.
CornerLists(cube) ==
    {[i \in 1..Len(cube.data_shape) |-> Quantity(c, WorldUnit(cube, i))] :
        c \in CornerValues}

\* dimension_widths: one width per data axis, in the same units: a small
\* width of either sign, or the whole extent of the axis.
WidthLists(cube) ==
    {[i \in 1..Len(v) |-> Quantity(v[i], WorldUnit(cube, i))] :
        v \in {w \in SeqsOfLen(WidthValues \cup {FullExtent(cube.data_shape[i]) :
                                                    i \in 1..Len(cube.data_shape)},
                               Len(cube.data_shape)) :
                 \A i \in 1..Len(w) :
                    w[i] \in WidthValues \cup {FullExtent(cube.data_shape[i])}}}

\* cube.crop_by_coords(lower_left_corner, dimension_widths)
CropRegion ==
    /\ pc = "ready"
    /\ \E lower_left_corner \in CornerLists(self), dimension_widths \in WidthLists(self) :
        LET r == crop_by_coords(self, lower_left_corner, dimension_widths)
        IN  call' = [NoCall EXCEPT
                        !.op = "crop_by_coords",
                        !.quantity_axis_list = lower_left_corner,
                        !.dimension_widths = dimension_widths,
                        !.raised = r.raised,
                        !.lower_pixels = r.lower_pixels,
                        !.upper_pixels = r.upper_pixels,
                        !.slic = r.slic,
                        !.shape = r.shape]
    /\ pc' = "returned"
    /\ UNCHANGED <<init_args, self, sanitize_vars, update_vars>>

\* The cubes cropped: those without extra coordinates, which
\* crop_by_coords does not read.
InitCrop ==
    /\ Init
    /\ init_args.extra_coords = <<>>

NextCrop ==
    \/ Construct
    \/ CropRegion
    \/ Return

SpecCrop == InitCrop /\ [][NextCrop]_vars

----------------------------------------------------------------------------
(* Cubes with extra coordinates: up to MaxExtra entries (name, data axis,  *)
(* value), on any data axis, the names free to repeat.                     *)

ExtraNames == {"time", "label"}

\* The value of an entry: one number per element of its axis, those of
\* different names different.
ExtraValue(name, n) ==
    [m \in 1..n |-> IF name = "time" THEN m - 1 ELSE 10 + m]

ExtraEntries(data_shape) ==
    {[name |-> name, axis |-> axis, value |-> ExtraValue(name, At(data_shape, axis))] :
        name \in ExtraNames, axis \in 0..(Len(data_shape) - 1)}

ExtraInitArgs ==
    UNION {{[args EXCEPT !.extra_coords = extra] :
                extra \in SeqsUpTo(ExtraEntries(args.data_shape), MaxExtra)} :
           args \in {a \in InitArgs : a.extra_coords = <<>>}}

InitExtra ==
    /\ pc = "new"
    /\ init_args \in ExtraInitArgs
    /\ self = NoSelf
    /\ call = NoCall
    /\ data = <<>> /\ aligned_axes = <<>> /\ sanitized = <<>>
    /\ canonical = <<>> /\ drop_aligned_axes_indices = <<>>
    /\ new_aligned_axes = <<>> /\ threads = <<>>

NextExtra ==
    \/ Construct
    \/ ExtraCoords
    \/ Return

SpecExtra == InitExtra /\ [][NextExtra]_vars

----------------------------------------------------------------------------
(* Python values, as far as _sanitize_aligned_axes tells them apart.       *)

PyInt(n) == [type |-> "int", int |-> n, items |-> <<>>]
PyTuple(items) == [type |-> "tuple", int |-> 0, items |-> items]
\* The float n.0 and the list of the items.
PyFloat(n) == [type |-> "float", int |-> n, items |-> <<>>]
PyList(items) == [type |-> "list", int |-> 0, items |-> items]

isinstance(v, type) == v.type = type

\* A tuple of ints from a sequence of numbers, and back.
IntTuple(ns) == PyTuple([j \in 1..Len(ns) |-> PyInt(ns[j])])
Ints(t) == [j \in 1..Len(t.items) |-> t.items[j].int]

\* max(ns) of a non-empty sequence of numbers.
Max(ns) == CHOOSE m \in {ns[j] : j \in 1..Len(ns)} : \A j \in 1..Len(ns) : ns[j] <= m

----------------------------------------------------------------------------
(* _sanitize_aligned_axes(data, aligned_axes).                             *)
(* data is the sequence of the members' dimensions: member i of the code   *)
(* is data[i + 1], a sequence of extents, one per axis (cube.dimensions, a *)
(* Quantity: the branch of lines 21-22).                                   *)
(* What the function raises is named after the raise statement:            *)
(*   "UnsupportedAxisType"      lines 31, 78, 82 (aligned_axes_error_message) *)
(*   "TupleCountMismatch"       line 46                                    *)
(*   "AlignmentLengthMismatch"  line 58                                    *)
(*   "AlignmentAxisOutOfRange"  line 65                                    *)
(*   "AlignmentExtentMismatch"  lines 80, 89                               *)
(* and after the Python exception where no raise statement is reached:     *)
(* "TypeError" (subscripting an int), "IndexError" (an index out of        *)
(* bounds, a non-integer index array).                                     *)

Failure(kind) == [raised |-> kind, value |-> <<>>]

\* Lines 21-24: what the evaluation of
\*   data[0].dimensions[np.array(aligned_axes[0])]
\* raises, "none" if nothing.  It comes before any check of aligned_axes.
Cube0DimsRaises(members, axes) ==
    \* aligned_axes[0] of a number
    IF isinstance(axes, "int") \/ isinstance(axes, "float") THEN "TypeError"
    ELSE IF Len(axes.items) = 0 THEN "IndexError"
    ELSE
        LET first == axes.items[1]
        IN  IF isinstance(first, "int")
            THEN IF InRange(members[1], first.int) THEN "none" ELSE "IndexError"
            \* an array of floats is no index array
            ELSE IF isinstance(first, "float") THEN "IndexError"
            \* np.array(()) is an array of floats
            ELSE IF Len(first.items) = 0 THEN "IndexError"
            ELSE IF \E j \in 1..Len(first.items) :
                        \/ ~isinstance(first.items[j], "int")
                        \/ ~InRange(members[1], first.items[j].int)
            THEN "IndexError"
            ELSE "none"

\* cube0_dims of lines 22, as line 74 reads it (aligned_axes[0] a tuple).
Cube0Dims(members, axes) ==
    LET first == axes.items[1]
    IN  [j \in 1..Len(first.items) |-> At(members[1], first.items[j].int)]

\* Lines 59-76, from member i on.  st.raised is what a member before i
\* raised; st.ints and st.same are subtuples_are_ints and
\* aligned_axes_same_lengths.
RECURSIVE CubeLoop(_, _, _, _, _, _)
CubeLoop(members, tuples, cube0_dims, n_aligned_axes, i, st) ==
    IF i >= Len(members) \/ st.raised # "none" THEN st
    ELSE
        LET cube_dimensions == members[i + 1]
            axes == Ints(tuples[i + 1])
            n_cube_dims == Len(cube_dimensions)
            max_aligned_axis == Max(axes)
        IN  IF n_cube_dims < Max(<<max_aligned_axis, n_aligned_axes>>)
            THEN [st EXCEPT !.raised = "AlignmentAxisOutOfRange"]
            \* line 74: data[i].dimensions[axis], of a float or of an int
            \* out of range
            ELSE IF \E j \in 1..Len(axes) :
                        \/ ~isinstance(tuples[i + 1].items[j], "int")
                        \/ ~InRange(cube_dimensions, axes[j])
            THEN [st EXCEPT !.raised = "IndexError"]
            ELSE CubeLoop(members, tuples, cube0_dims, n_aligned_axes, i + 1,
                    [st EXCEPT
                        !.ints = Append(@,
                            \A j \in 1..Len(axes) : isinstance(tuples[i + 1].items[j], "int")),
                        !.same = Append(@,
                            \A j \in 1..Len(axes) : At(cube_dimensions, axes[j]) = cube0_dims[j])])

\* A plausible slip in lines 45-46: a tuple with too few or too many tuples
\* is made to fit, the last tuple repeated or the surplus left unread.
SanitizeTuplesFitted(members, axes) ==
    LET n_cubes == Len(members)
        tuples == [i \in 1..n_cubes |->
                      axes.items[IF i <= Len(axes.items) THEN i ELSE Len(axes.items)]]
        n_aligned_axes == Len(tuples[1].items)
        st == CubeLoop(members, tuples, Cube0Dims(members, axes), n_aligned_axes, 0,
                       [raised |-> "none", ints |-> <<>>, same |-> <<>>])
    IN  IF ~(\A i \in 1..Len(tuples) : Len(tuples[i].items) = n_aligned_axes)
        THEN "AlignmentLengthMismatch"
        ELSE IF st.raised # "none" THEN st.raised
        ELSE IF ~(\A i \in 1..Len(st.ints) : st.ints[i]) THEN "UnsupportedAxisType"
        ELSE IF ~(\A i \in 1..Len(st.same) : st.same[i]) THEN "AlignmentExtentMismatch"
        ELSE "none"

\* Lines 44-80: aligned_axes is a tuple of tuples.
SanitizeTuples(members, axes) ==
    LET n_cubes == Len(members)
        tuples == axes.items
        n_aligned_axes == Len(tuples[1].items)
        st == CubeLoop(members, tuples, Cube0Dims(members, axes), n_aligned_axes, 0,
                       [raised |-> "none", ints |-> <<>>, same |-> <<>>])
    IN  IF Len(tuples) # n_cubes THEN "TupleCountMismatch"
        ELSE IF ~(\A i \in 1..Len(tuples) : Len(tuples[i].items) = n_aligned_axes)
        THEN "AlignmentLengthMismatch"
        ELSE IF st.raised # "none" THEN st.raised
        ELSE IF ~(\A i \in 1..Len(st.ints) : st.ints[i]) THEN "UnsupportedAxisType"
        ELSE IF ~(\A i \in 1..Len(st.same) : st.same[i]) THEN "AlignmentExtentMismatch"
        ELSE "none"

\* A plausible slip in lines 85-89: the final check is left out (the axes
\* are still read).
FinalCheckWithoutExtents(members, seqs, n_aligned_axes) ==
    LET zipped == 1..(IF Len(members) <= Len(seqs) THEN Len(members) ELSE Len(seqs))
    IN  IF \E i \in zipped : \E j \in 1..n_aligned_axes : ~InRange(members[i], seqs[i][j])
        THEN "IndexError"
        ELSE "none"

\* Lines 85-89: the final check of the extents, on the tuple of tuples
\* (seqs is one sequence of axis numbers per member; zip pairs the members
\* with the tuples as far as both go).
FinalCheck(members, seqs, n_aligned_axes) ==
    LET zipped == 1..(IF Len(members) <= Len(seqs) THEN Len(members) ELSE Len(seqs))
    IN  IF \E i \in zipped : \E j \in 1..n_aligned_axes : ~InRange(members[i], seqs[i][j])
        THEN "IndexError"
        ELSE
            LET check_dimensions ==
                    {Cardinality({At(members[i], seqs[i][j]) : i \in zipped}) :
                        j \in 1..n_aligned_axes}
            IN  IF check_dimensions # {1} THEN "AlignmentExtentMismatch" ELSE "none"

\* A plausible slip in line 40: one copy too few.
DuplicateOneShort(axes, n_cubes) == [i \in 1..(n_cubes - 1) |-> Ints(axes)]

\* Line 40: tuple([aligned_axes for i in range(n_cubes)])
Duplicate(axes, n_cubes) == [i \in 1..n_cubes |-> Ints(axes)]

\* Lines 19-91.
sanitize_aligned_axes(members, axes_arg) ==
    LET first_raise == Cube0DimsRaises(members, axes_arg)
        \* lines 28-29
        axes == IF isinstance(axes_arg, "int") THEN PyTuple(<<axes_arg>>) ELSE axes_arg
        axes_all_ints == \A j \in 1..Len(axes.items) : isinstance(axes.items[j], "int")
        axes_all_tuples == \A j \in 1..Len(axes.items) : isinstance(axes.items[j], "tuple")
        n_cubes == Len(members)
    IN  IF first_raise # "none" THEN Failure(first_raise)
        ELSE IF ~isinstance(axes, "tuple") THEN Failure("UnsupportedAxisType")
        ELSE IF axes_all_ints
        THEN LET seqs == Duplicate(axes, n_cubes)
                 final == FinalCheck(members, seqs, Len(axes.items))
             IN  IF final # "none" THEN Failure(final)
                 ELSE [raised |-> "none", value |-> seqs]
        ELSE IF axes_all_tuples
        THEN LET checks == SanitizeTuples(members, axes)
                 seqs == [i \in 1..Len(axes.items) |-> Ints(axes.items[i])]
                 final == FinalCheck(members, seqs, Len(axes.items[1].items))
             IN  IF checks # "none" THEN Failure(checks)
                 ELSE IF final # "none" THEN Failure(final)
                 ELSE [raised |-> "none", value |-> seqs]
        ELSE Failure("UnsupportedAxisType")

----------------------------------------------------------------------------
(* _update_aligned_axes(drop_aligned_axes_indices, aligned_axes, first_key). *)
(* aligned_axes is a dict from the members' keys to their tuples; it is    *)
(* the sequence of its values in key order here, and first_key the place   *)
(* of a key in it.  drop_aligned_axes_indices is a numpy array: the        *)
(* function works on the caller's own array.                               *)

\* np.delete(array, index)
Delete(array, index) ==
    [n \in 1..(Len(array) - 1) |-> IF n <= index THEN array[n] ELSE array[n + 1]]

\* array[np.where(array > bound)] -= 1
DecrementAbove(array, bound) ==
    [n \in 1..Len(array) |-> IF array[n] > bound THEN array[n] - 1 ELSE array[n]]

\* Lines 104-110 for one member, from the n-th step of the iteration over
\* drop_aligned_axes_indices on.  The iteration reads the array as it is at
\* that step.
RECURSIVE DropLoop(_, _, _)
DropLoop(cube_aligned_axes, drop, n) ==
    IF n >= Len(drop)
    THEN [cube_aligned_axes |-> cube_aligned_axes, drop |-> drop, raised |-> "none"]
    ELSE
        LET drop_axis_index == At(drop, n)
        IN  IF ~InRange(cube_aligned_axes, drop_axis_index)
            THEN [cube_aligned_axes |-> cube_aligned_axes, drop |-> drop,
                  raised |-> "IndexError"]
            ELSE
                LET drop_axis == At(cube_aligned_axes, drop_axis_index)
                IN  DropLoop(
                        DecrementAbove(Delete(cube_aligned_axes, drop_axis_index), drop_axis),
                        DecrementAbove(drop, drop_axis_index),
                        n + 1)

\* Lines 102-111, from the member at place m on: st.new is new_aligned_axes,
\* st.drop the array as the members before m left it.
RECURSIVE KeyLoop(_, _, _)
KeyLoop(axes, m, st) ==
    IF m > Len(axes) \/ st.raised # "none" THEN st
    ELSE
        LET r == DropLoop(axes[m], st.drop, 0)
        IN  KeyLoop(axes, m + 1,
                [new |-> IF r.raised = "none" THEN Append(st.new, r.cube_aligned_axes)
                         ELSE st.new,
                 drop |-> r.drop,
                 raised |-> r.raised])

\* A plausible slip in lines 96-99: the empty array is taken with the case
\* that drops every aligned axis.
update_aligned_axes_empty_is_None(drop, axes, first_key) ==
    IF Len(drop) <= 0 \/ Len(drop) = Len(axes[first_key])
    THEN [raised |-> "none", is_None |-> TRUE, value |-> <<>>, drop |-> drop]
    ELSE
        LET st == KeyLoop(axes, 1, [new |-> <<>>, drop |-> drop, raised |-> "none"])
        IN  [raised |-> st.raised, is_None |-> FALSE,
             value |-> IF st.raised = "none" THEN st.new ELSE <<>>,
             drop |-> st.drop]

\* A plausible slip in line 98: the number of dropped positions is compared
\* with the number of members, len(aligned_axes).
update_aligned_axes_counts_members(drop, axes, first_key) ==
    IF Len(drop) <= 0
    THEN [raised |-> "none", is_None |-> FALSE, value |-> axes, drop |-> drop]
    ELSE IF Len(drop) = Len(axes)
    THEN [raised |-> "none", is_None |-> TRUE, value |-> <<>>, drop |-> drop]
    ELSE
        LET st == KeyLoop(axes, 1, [new |-> <<>>, drop |-> drop, raised |-> "none"])
        IN  [raised |-> st.raised, is_None |-> FALSE,
             value |-> IF st.raised = "none" THEN st.new ELSE <<>>,
             drop |-> st.drop]

\* Lines 94-114.  is_None: the function returned None.
update_aligned_axes(drop, axes, first_key) ==
    IF Len(drop) <= 0
    THEN [raised |-> "none", is_None |-> FALSE, value |-> axes, drop |-> drop]
    ELSE IF Len(drop) = Len(axes[first_key])
    THEN [raised |-> "none", is_None |-> TRUE, value |-> <<>>, drop |-> drop]
    ELSE
        LET st == KeyLoop(axes, 1, [new |-> <<>>, drop |-> drop, raised |-> "none"])
        IN  [raised |-> st.raised, is_None |-> FALSE,
             value |-> IF st.raised = "none" THEN st.new ELSE <<>>,
             drop |-> st.drop]

----------------------------------------------------------------------------
(* The collections _sanitize_aligned_axes is called with. *)

\* A member's dimensions: rank axes of extent 10.
Plain(rank) == [a \in 1..rank |-> 10]

RankVectors == UNION {[1..N -> 1..MaxRank] : N \in 1..MaxCubes}

\* The members: up to MaxCubes of them, each of a rank up to MaxRank; every
\* axis has extent 10, but for at most one axis of one member, which has 11.
Collections ==
    UNION {
        LET plain == [i \in 1..Len(ranks) |-> Plain(ranks[i])]
            axes == {p \in (1..Len(ranks)) \X (1..MaxRank) : p[2] <= ranks[p[1]]}
        IN  {plain} \cup {[plain EXCEPT ![p[1]][p[2]] = 11] : p \in axes}
        : ranks \in RankVectors}

\* The axis numbers a caller names: those of a member of the highest rank,
\* and that rank itself.  The tuples of up to MaxRank of them, and those
\* that name no axis twice.
AxisTuples == SeqsUpTo(0..MaxRank, MaxRank)

DistinctAxisTuples ==
    {t \in AxisTuples : \A a \in 1..Len(t) : \A b \in 1..Len(t) : a # b => t[a] # t[b]}

\* A tuple of ints but for the float at place e.
FloatAt(t, e) ==
    PyTuple([j \in 1..Len(t) |-> IF j = e THEN PyFloat(t[j]) ELSE PyInt(t[j])])

\* The aligned_axes a caller passes for N members: an int, a tuple of ints,
\* or a tuple of N tuples of different ints, of which at most one differs
\* from the others; and what is none of these: a float, a list of ints, a
\* tuple of an int and a tuple, a tuple of N tuples with a float in one, a
\* tuple of one tuple of ints fewer or more than N.
IsAlignedAxesArg(v, N) ==
    \/ \E a \in 0..MaxRank : v = PyInt(a)
    \/ \E t \in AxisTuples : v = IntTuple(t)
    \/ \E t1 \in DistinctAxisTuples, t2 \in DistinctAxisTuples, j \in 1..N :
            v = PyTuple([i \in 1..N |-> IntTuple(IF i = j THEN t2 ELSE t1)])
    \/ \E a \in 0..MaxRank : v = PyFloat(a)
    \/ \E t \in AxisTuples : v = PyList(IntTuple(t).items)
    \/ \E a \in 0..MaxRank, t \in DistinctAxisTuples :
            \/ v = PyTuple(<<PyInt(a), IntTuple(t)>>)
            \/ v = PyTuple(<<IntTuple(t), PyInt(a)>>)
    \/ \E t \in DistinctAxisTuples, j \in 1..N :
            \E e \in 1..Len(t) :
                v = PyTuple([i \in 1..N |-> IF i = j THEN FloatAt(t, e) ELSE IntTuple(t)])
    \/ \E t \in DistinctAxisTuples, M \in {N - 1, N + 1} :
            /\ M >= 1
            /\ v = PyTuple([i \in 1..M |-> IntTuple(t)])

Pending == [raised |-> "pending", value |-> <<>>]

CubeUnused ==
    /\ init_args = <<>>
    /\ self = NoSelf
    /\ call = NoCall

InitSanitize ==
    /\ pc = "sanitize"
    /\ data \in Collections
    /\ IsAlignedAxesArg(aligned_axes, Len(data))
    /\ sanitized = Pending
    /\ CubeUnused
    /\ canonical = <<>> /\ drop_aligned_axes_indices = <<>>
    /\ new_aligned_axes = <<>> /\ threads = <<>>

\* _sanitize_aligned_axes(data, aligned_axes), as NDCollection's constructor
\* calls it.
SanitizeAlignedAxes ==
    /\ pc = "sanitize"
    /\ sanitized' = sanitize_aligned_axes(data, aligned_axes)
    /\ pc' = "sanitized"
    /\ UNCHANGED <<data, aligned_axes, cube_vars, update_vars>>

NextSanitize == SanitizeAlignedAxes

SpecSanitize == InitSanitize /\ [][NextSanitize]_vars

----------------------------------------------------------------------------
(* The collections _update_aligned_axes is called for. *)

\* The tuples of k different axis numbers, of members with k + 1 axes.
DistinctAxes(k) ==
    {t \in [1..k -> 0..k] : \A a \in 1..k : \A b \in 1..k : a # b => t[a] # t[b]}

\* Those of them that list the axes lowest first.
AscendingAxes(k) ==
    {t \in DistinctAxes(k) : \A a \in 1..k : \A b \in 1..k : a < b => t[a] < t[b]}

\* The aligned axes of a collection: up to MaxCubes members and up to
\* MaxAligned aligned axes; at most one member's tuple differs from the
\* others', and that one lists its axes lowest first.
IsAlignment(v) ==
    \E N \in 1..MaxCubes, k \in 1..MaxAligned :
        \E t1 \in DistinctAxes(k) :
            \E t2 \in {t1} \cup AscendingAxes(k), j \in 1..N :
                v = [i \in 1..N |-> IF i = j THEN t2 ELSE t1]

\* The numbers of a set, lowest first.
RECURSIVE Ascending(_)
Ascending(ns) ==
    IF ns = {} THEN <<>>
    ELSE LET m == CHOOSE a \in ns : \A b \in ns : a <= b
         IN  <<m>> \o Ascending(ns \ {m})

\* The positions a slicing drops, in ascending order: any of the k.
DropArrays(k) == {Ascending(P) : P \in SUBSET (0..(k - 1))}

NotUpdated == [raised |-> "pending", is_None |-> FALSE, value |-> <<>>, given |-> <<>>]

InitUpdate ==
    /\ pc = "update"
    /\ IsAlignment(canonical)
    /\ drop_aligned_axes_indices \in DropArrays(Len(canonical[1]))
    /\ new_aligned_axes = NotUpdated
    /\ threads = <<>>
    /\ CubeUnused
    /\ data = <<>> /\ aligned_axes = <<>> /\ sanitized = <<>>

\* _update_aligned_axes(drop_aligned_axes_indices, self.aligned_axes,
\* self._first_key), as NDCollection's slicing calls it.  given: the array
\* as the caller passed it.
UpdateAlignedAxes ==
    /\ pc = "update"
    /\ LET r == update_aligned_axes(drop_aligned_axes_indices, canonical, 1)
       IN  /\ new_aligned_axes' =
                [raised |-> r.raised, is_None |-> r.is_None, value |-> r.value,
                 given |-> drop_aligned_axes_indices]
           /\ drop_aligned_axes_indices' = r.drop
    /\ pc' = "updated"
    /\ UNCHANGED <<canonical, threads, cube_vars, sanitize_vars>>

NextUpdate == UpdateAlignedAxes

SpecUpdate == InitUpdate /\ [][NextUpdate]_vars

----------------------------------------------------------------------------
(* Two threads in _update_aligned_axes at one time, both called with the   *)
(* collection's aligned_axes and with the same array of positions.  A      *)
(* thread takes one step at a time: the tests of lines 96-100, the start   *)
(* of a member's turn (lines 102-103), one turn of the loop over the array  *)
(* (lines 104-110), the end of a member's turn (line 111), the return.     *)

ThreadIds == {1, 2}

Idle ==
    [pc |-> "idle", m |-> 0, n |-> 0, cube_aligned_axes |-> <<>>, new |-> <<>>,
     raised |-> "none", is_None |-> FALSE, value |-> <<>>]

InitThreads ==
    /\ pc = "threads"
    /\ IsAlignment(canonical)
    /\ drop_aligned_axes_indices \in DropArrays(Len(canonical[1]))
    /\ new_aligned_axes = [NotUpdated EXCEPT !.given = drop_aligned_axes_indices]
    /\ threads = [t \in ThreadIds |-> Idle]
    /\ CubeUnused
    /\ data = <<>> /\ aligned_axes = <<>> /\ sanitized = <<>>

\* Lines 96-101.
ThreadCall ==
    \E t \in ThreadIds :
        /\ threads[t].pc = "idle"
        /\ threads' = [threads EXCEPT ![t] =
                IF Len(drop_aligned_axes_indices) <= 0
                THEN [@ EXCEPT !.pc = "done", !.value = canonical]
                ELSE IF Len(drop_aligned_axes_indices) = Len(canonical[1])
                THEN [@ EXCEPT !.pc = "done", !.is_None = TRUE]
                ELSE [@ EXCEPT !.pc = "key", !.m = 1]]
        /\ UNCHANGED <<pc, canonical, drop_aligned_axes_indices, new_aligned_axes,
                       cube_vars, sanitize_vars>>

\* Lines 102-103, and 112-114 when no member is left.
ThreadKey ==
    \E t \in ThreadIds :
        /\ threads[t].pc = "key"
        /\ threads' = [threads EXCEPT ![t] =
                IF threads[t].m > Len(canonical)
                THEN [@ EXCEPT !.pc = "done", !.value = threads[t].new]
                ELSE [@ EXCEPT !.pc = "drop", !.n = 0,
                               !.cube_aligned_axes = canonical[threads[t].m]]]
        /\ UNCHANGED <<pc, canonical, drop_aligned_axes_indices, new_aligned_axes,
                       cube_vars, sanitize_vars>>

\* One turn of lines 104-110 on the array as it is now, or line 111 when
\* the array is through.
ThreadDrop ==
    \E t \in ThreadIds :
        LET th == threads[t]
            drop_axis_index == At(drop_aligned_axes_indices, th.n)
            drop_axis == At(th.cube_aligned_axes, drop_axis_index)
        IN  /\ th.pc = "drop"
            /\ IF th.n >= Len(drop_aligned_axes_indices)
               THEN /\ threads' = [threads EXCEPT ![t] =
                            [@ EXCEPT !.pc = "key", !.m = @ + 1,
                                      !.new = Append(@, th.cube_aligned_axes)]]
                    /\ UNCHANGED drop_aligned_axes_indices
               ELSE IF ~InRange(th.cube_aligned_axes, drop_axis_index)
               THEN /\ threads' = [threads EXCEPT ![t] =
                            [@ EXCEPT !.pc = "done", !.raised = "IndexError"]]
                    /\ UNCHANGED drop_aligned_axes_indices
               ELSE /\ threads' = [threads EXCEPT ![t] =
                            [@ EXCEPT !.n = @ + 1,
                                      !.cube_aligned_axes =
                                        DecrementAbove(Delete(@, drop_axis_index),
                                                       drop_axis)]]
                    /\ drop_aligned_axes_indices' =
                            DecrementAbove(drop_aligned_axes_indices, drop_axis_index)
            /\ UNCHANGED <<pc, canonical, new_aligned_axes, cube_vars, sanitize_vars>>

NextThreads ==
    \/ ThreadCall
    \/ ThreadKey
    \/ ThreadDrop

SpecThreads == InitThreads /\ [][NextThreads]_vars

----------------------------------------------------------------------------
(* Properties of _update_aligned_axes (SpecUpdate). *)

\* What is left of a member's tuple t when the positions P (of the tuple as
\* given) are removed and the axes renumbered: the entries at the other
\* positions, in order, each lowered by the number of removed axis numbers
\* below it.
AfterDrop(t, P) ==
    LET kept == Ascending((0..(Len(t) - 1)) \ P)
    IN  [n \in 1..Len(kept) |->
            At(t, kept[n]) - Cardinality({q \in P : At(t, q) < At(t, kept[n])})]

Positions(array) == {array[n] : n \in 1..Len(array)}

\* C1: when some but not all of the k aligned positions are dropped,
\* _update_aligned_axes returns, for every member, that member's tuple
\* without the entries at the given positions, each remaining axis number
\* lowered once for every removed axis number of that member below it.
C1_UpdateRemovesGivenPositions ==
    (/\ pc = "updated"
     /\ Len(new_aligned_axes.given) > 0
     /\ Len(new_aligned_axes.given) < Len(canonical[1]))
    => /\ new_aligned_axes.raised = "none"
       /\ ~new_aligned_axes.is_None
       /\ new_aligned_axes.value =
            [m \in 1..Len(canonical) |->
                AfterDrop(canonical[m], Positions(new_aligned_axes.given))]

\* C13: _update_aligned_axes changes neither the aligned_axes it is given
\* nor the array of positions it is given; what it returns is a new value.
C13_UpdateLeavesInputsAlone ==
    [][pc = "update" =>
        /\ canonical' = canonical
        /\ drop_aligned_axes_indices' = drop_aligned_axes_indices]_vars

\* C14: with an empty array of positions, _update_aligned_axes returns
\* the members' tuples as they are, in the members' order.
C14_EmptyDropReturnsCanonical ==
    (/\ pc = "updated"
     /\ Len(new_aligned_axes.given) = 0)
    => /\ new_aligned_axes.raised = "none"
       /\ ~new_aligned_axes.is_None
       /\ new_aligned_axes.value = canonical

\* C14's case: two members with different tuples, nothing dropped, both
\* tuples returned in order.
C14_Witness ==
    /\ pc = "updated"
    /\ new_aligned_axes.given = <<>>
    /\ canonical = <<<<0, 1>>, <<1, 2>>>>
    /\ new_aligned_axes.value = <<<<0, 1>>, <<1, 2>>>>

\* C15: _update_aligned_axes returns None when the positions given are all
\* the k aligned positions, and otherwise returns one tuple per member, each
\* of the k aligned axes less the dropped ones.
C15_NoneIffAllDropped ==
    pc = "updated" =>
        LET k == Len(canonical[1])
            d == Len(new_aligned_axes.given)
        IN  /\ new_aligned_axes.raised = "none"
            /\ new_aligned_axes.is_None <=> d = k
            /\ d < k =>
                /\ Len(new_aligned_axes.value) = Len(canonical)
                /\ \A m \in 1..Len(canonical) :
                        Len(new_aligned_axes.value[m]) = k - d

\* C15's cases: all three positions of two members dropped, None returned;
\* and two of three dropped, a tuple of one axis per member returned.
C15_Witness ==
    /\ pc = "updated"
    /\ Len(canonical) = 2
    /\ Len(canonical[1]) = 3
    /\ \/ /\ new_aligned_axes.given = <<0, 1, 2>>
          /\ new_aligned_axes.is_None
       \/ /\ new_aligned_axes.given = <<0, 2>>
          /\ ~new_aligned_axes.is_None
          /\ Len(new_aligned_axes.value[2]) = 1

\* What _update_aligned_axes gives for the collection's aligned_axes and
\* the array as the callers passed it, when nothing else runs.
Alone == update_aligned_axes(new_aligned_axes.given, canonical, 1)

\* C19: two calls of _update_aligned_axes at one time, with the same
\* aligned_axes and the same array of positions, each return what the call
\* returns when it runs alone, however their steps interleave.
C19_ThreadsDoNotInterfere ==
    \A t \in ThreadIds :
        (pc = "threads" /\ threads[t].pc = "done") =>
            /\ threads[t].raised = Alone.raised
            /\ threads[t].is_None = Alone.is_None
            /\ threads[t].value = Alone.value

----------------------------------------------------------------------------
(* Properties of _sanitize_aligned_axes (SpecSanitize). *)

\* What _update_aligned_axes returns for a collection of the one member
\* with the tuple t, called with the positions the caller passed.
AloneInCollection(t) ==
    update_aligned_axes(new_aligned_axes.given, <<t>>, 1).value[1]

\* C28: the tuple _update_aligned_axes computes for a member depends on the
\* member's own tuple and on the positions the caller passed only, not on
\* the member's place or on the members before it: it is the tuple computed
\* for that member alone, and members with equal tuples get equal tuples.
C28_MemberResultIsItsOwn ==
    (/\ pc = "updated"
     /\ new_aligned_axes.raised = "none"
     /\ ~new_aligned_axes.is_None
     /\ Len(new_aligned_axes.given) > 0)
    => /\ \A m \in 1..Len(canonical) :
            new_aligned_axes.value[m] = AloneInCollection(canonical[m])
       /\ \A a \in 1..Len(canonical) : \A b \in 1..Len(canonical) :
            canonical[a] = canonical[b] =>
                new_aligned_axes.value[a] = new_aligned_axes.value[b]

Returned(value) == [raised |-> "none", value |-> value]

IsTupleOfInts(v) ==
    /\ isinstance(v, "tuple")
    /\ Len(v.items) > 0
    /\ \A j \in 1..Len(v.items) : isinstance(v.items[j], "int")

\* A tuple with one tuple of ints per member.
IsTupleOfTuples(v, N) ==
    /\ isinstance(v, "tuple")
    /\ Len(v.items) = N
    /\ \A i \in 1..N :
        /\ isinstance(v.items[i], "tuple")
        /\ \A j \in 1..Len(v.items[i].items) : isinstance(v.items[i].items[j], "int")

\* The axis numbers the argument names for member i (1..N), as a sequence.
AxesOf(v, i) ==
    IF isinstance(v, "int") THEN <<v.int>>
    ELSE IF IsTupleOfInts(v) THEN Ints(v)
    ELSE Ints(v.items[i])

AxesInRange(members, v) ==
    \A i \in 1..Len(members) : \A j \in 1..Len(AxesOf(v, i)) :
        InRange(members[i], AxesOf(v, i)[j])

\* At every aligned position the members' designated axes have one extent.
ExtentsAgree(members, v) ==
    \A j \in 1..Len(AxesOf(v, 1)) : \A i \in 1..Len(members) :
        At(members[i], AxesOf(v, i)[j]) = At(members[1], AxesOf(v, 1)[j])

\* C2: for a single int a, members of rank above a and equal extents of
\* axis a, _sanitize_aligned_axes returns one tuple (a,) per member.
C2_IntIsNormalized ==
    (/\ pc = "sanitized"
     /\ isinstance(aligned_axes, "int")
     /\ AxesInRange(data, aligned_axes)
     /\ ExtentsAgree(data, aligned_axes))
    => sanitized = Returned([i \in 1..Len(data) |-> <<aligned_axes.int>>])

\* C3: for a single tuple of k >= 1 ints, every one an axis of every member
\* and of one extent across the members, _sanitize_aligned_axes returns N
\* copies of that tuple, one per member.
C3_TupleOfIntsIsDuplicated ==
    (/\ pc = "sanitized"
     /\ IsTupleOfInts(aligned_axes)
     /\ AxesInRange(data, aligned_axes)
     /\ ExtentsAgree(data, aligned_axes))
    => sanitized = Returned([i \in 1..Len(data) |-> Ints(aligned_axes)])

\* C3's case: two members or more, two axes in an order other than the
\* ascending one, and the tuple returned for each.
C3_Witness ==
    /\ pc = "sanitized"
    /\ Len(data) >= 2
    /\ aligned_axes = IntTuple(<<1, 0>>)
    /\ sanitized = Returned([i \in 1..Len(data) |-> <<1, 0>>])

\* The shapes of aligned_axes the function accepts, for N members: an int,
\* a tuple of k ints, a tuple of N tuples of k ints each (k >= 1).
AcceptedShape(v, N) ==
    \/ isinstance(v, "int")
    \/ IsTupleOfInts(v)
    \/ /\ IsTupleOfTuples(v, N)
       /\ \A i \in 1..N : Len(v.items[i].items) = Len(v.items[1].items)
       /\ Len(v.items[1].items) > 0

\* No axis is named twice for one member.
AxesDistinct(v, N) ==
    \A i \in 1..N : \A a \in 1..Len(AxesOf(v, i)) : \A b \in 1..Len(AxesOf(v, i)) :
        a # b => AxesOf(v, i)[a] # AxesOf(v, i)[b]

\* C4: whatever the accepted shape of aligned_axes, when at some aligned
\* position the members' designated axes differ in extent,
\* _sanitize_aligned_axes raises the extent-mismatch error and returns
\* nothing.
C4_ExtentMismatchIsRaised ==
    (/\ pc = "sanitized"
     /\ AcceptedShape(aligned_axes, Len(data))
     /\ AxesInRange(data, aligned_axes)
     /\ AxesDistinct(aligned_axes, Len(data))
     /\ ~ExtentsAgree(data, aligned_axes))
    => sanitized = Failure("AlignmentExtentMismatch")

\* Some axis number named for a member is no axis of that member.
SomeAxisOutOfRange(members, v) ==
    \E i \in 1..Len(members) : \E j \in 1..Len(AxesOf(v, i)) :
        AxesOf(v, i)[j] >= Len(members[i])

\* C5: for a tuple of ints and for a tuple of one tuple per member alike,
\* when an axis number named for a member is that member's rank or above,
\* _sanitize_aligned_axes raises the axis-out-of-range error.
C5_AxisOutOfRangeIsRaised ==
    (/\ pc = "sanitized"
     /\ \/ IsTupleOfInts(aligned_axes)
        \/ IsTupleOfTuples(aligned_axes, Len(data))
     /\ SomeAxisOutOfRange(data, aligned_axes))
    => sanitized = Failure("AlignmentAxisOutOfRange")

\* C6: for a tuple of one tuple per member, when the tuples are not all of
\* one length, _sanitize_aligned_axes raises the length-mismatch error.
C6_LengthMismatchIsRaised ==
    (/\ pc = "sanitized"
     /\ IsTupleOfTuples(aligned_axes, Len(data))
     /\ \E i \in 1..Len(data) :
            Len(aligned_axes.items[i].items) # Len(aligned_axes.items[1].items))
    => sanitized = Failure("AlignmentLengthMismatch")

\* aligned_axes is of a type the function takes: an int, a tuple of ints, a
\* tuple of tuples of ints.
IsSupportedType(v) ==
    \/ isinstance(v, "int")
    \/ /\ isinstance(v, "tuple")
       /\ \A j \in 1..Len(v.items) : isinstance(v.items[j], "int")
    \/ /\ isinstance(v, "tuple")
       /\ \A j \in 1..Len(v.items) :
            /\ isinstance(v.items[j], "tuple")
            /\ \A e \in 1..Len(v.items[j].items) :
                    isinstance(v.items[j].items[e], "int")

\* The numbers aligned_axes names, wherever in it.
Numbers(v) ==
    IF v.type \in {"int", "float"} THEN {v.int}
    ELSE UNION {IF v.items[j].type \in {"int", "float"}
                THEN {v.items[j].int}
                ELSE {v.items[j].items[e].int : e \in 1..Len(v.items[j].items)} :
                    j \in 1..Len(v.items)}

\* Every number named is below the rank of every member.
NumbersInRange(members, v) ==
    \A n \in Numbers(v) : \A i \in 1..Len(members) : n < Len(members[i])

\* aligned_axes is a sequence that is not empty and has no empty sequence
\* in it.
IsFilledSequence(v) ==
    /\ v.type \in {"tuple", "list"}
    /\ Len(v.items) > 0
    /\ \A j \in 1..Len(v.items) :
            v.items[j].type \in {"tuple", "list"} => Len(v.items[j].items) > 0

\* C16: for an aligned_axes that is not an int, a tuple of ints or a tuple
\* of tuples of ints (here a list of ints, a tuple of ints and tuples, a
\* tuple of tuples with an element that is no int), naming axes of every
\* member, _sanitize_aligned_axes raises the unsupported-type error and
\* returns nothing.
C16_UnsupportedTypeIsRaised ==
    (/\ pc = "sanitized"
     /\ ~IsSupportedType(aligned_axes)
     /\ IsFilledSequence(aligned_axes)
     /\ NumbersInRange(data, aligned_axes))
    => sanitized = Failure("UnsupportedAxisType")

\* C17: what _sanitize_aligned_axes returns has one tuple per member, all
\* of one length k; every axis number in it is an axis of its member; and at
\* every position the members' designated axes have the same extent.
C17_ReturnedAlignmentIsValid ==
    (/\ pc = "sanitized"
     /\ sanitized.raised = "none")
    => LET value == sanitized.value
       IN  /\ Len(value) = Len(data)
           /\ \A i \in 1..Len(value) :
                /\ Len(value[i]) = Len(value[1])
                /\ \A j \in 1..Len(value[i]) :
                    /\ InRange(data[i], value[i][j])
                    /\ At(data[i], value[i][j]) = At(data[1], value[1][j])

\* C17's case: two members of different rank and shape, aligned on
\* different axes of the same extent.
C17_Witness ==
    /\ pc = "sanitized"
    /\ data = <<<<11, 10>>, <<10>>>>
    /\ aligned_axes = PyTuple(<<IntTuple(<<1>>), IntTuple(<<0>>)>>)
    /\ sanitized = Returned(<<<<1>>, <<0>>>>)

\* The per-member tuples are not all of one length.
LengthsDiffer(v) ==
    \E i \in 1..Len(v.items) : Len(v.items[i].items) # Len(v.items[1].items)

\* At some position two members' designated axes, both of them axes of
\* their members, differ in extent.
SomeExtentsDiffer(members, v) ==
    \E i \in 1..Len(members) :
        \E j \in 1..Len(AxesOf(v, i)) :
            /\ j <= Len(AxesOf(v, 1))
            /\ InRange(members[i], AxesOf(v, i)[j])
            /\ InRange(members[1], AxesOf(v, 1)[j])
            /\ At(members[i], AxesOf(v, i)[j]) # At(members[1], AxesOf(v, 1)[j])

\* The tuple of the first member is not empty and names axes of it.
FirstTupleInRange(members, v) ==
    /\ Len(AxesOf(v, 1)) > 0
    /\ \A j \in 1..Len(AxesOf(v, 1)) : InRange(members[1], AxesOf(v, 1)[j])

\* C27: _sanitize_aligned_axes reports the first check that fails, in the
\* order axis out of range, lengths, extents: for a tuple of one tuple per
\* member (the first member's in range) that names an axis number at or
\* above a member's rank, it raises the axis-out-of-range error also when
\* the tuples differ in length and also when extents differ.
C27_OutOfRangeIsReportedFirst ==
    (/\ pc = "sanitized"
     /\ IsTupleOfTuples(aligned_axes, Len(data))
     /\ FirstTupleInRange(data, aligned_axes)
     /\ SomeAxisOutOfRange(data, aligned_axes)
     /\ \/ LengthsDiffer(aligned_axes)
        \/ SomeExtentsDiffer(data, aligned_axes))
    => sanitized = Failure("AlignmentAxisOutOfRange")

\* A tuple of tuples of ints, one or more.
IsTupleOfSomeTuples(v) ==
    /\ isinstance(v, "tuple")
    /\ Len(v.items) > 0
    /\ \A i \in 1..Len(v.items) :
        /\ isinstance(v.items[i], "tuple")
        /\ \A j \in 1..Len(v.items[i].items) : isinstance(v.items[i].items[j], "int")

\* C30: for a tuple of tuples with fewer or more tuples than the collection
\* has members, _sanitize_aligned_axes raises; it returns no alignment made
\* to fit the collection.
C30_TupleCountMismatchIsRejected ==
    (/\ pc = "sanitized"
     /\ IsTupleOfSomeTuples(aligned_axes)
     /\ Len(aligned_axes.items) # Len(data))
    => /\ sanitized.raised # "none"
       /\ sanitized.value = <<>>

\* C30's case: two members, three tuples that would each do for a member,
\* and the error of line 46.
C30_Witness ==
    /\ pc = "sanitized"
    /\ data = <<<<10, 10>>, <<10, 10>>>>
    /\ aligned_axes = PyTuple(<<IntTuple(<<1, 0>>), IntTuple(<<1, 0>>), IntTuple(<<1, 0>>)>>)
    /\ sanitized = Failure("TupleCountMismatch")

----------------------------------------------------------------------------
(* Properties of NDCube (Spec). *)

Rank == Len(init_args.data_shape)

\* C7: whatever the rank R of the data, the number S of WCS axes and the
\* flags, NDCube(...) raises when the number of False flags is not R.
C7_RankMismatchIsRaised ==
    (/\ pc # "new"
     /\ CountNonMissing(InitMissingAxis(init_args)) # Rank)
    => pc = "failed"

IsTransform == call.op \in {"pixel_to_world", "world_to_pixel"}

\* The cube has one WCS axis that is not missing per data axis.
RankMatches == CountNonMissing(self.missing_axis) = Len(self.data_shape)

\* C8: pixel_to_world and world_to_pixel raise, and return nothing, when
\* the list they are given is shorter or longer than the rank R of the data.
C8_WrongLengthIsRaised ==
    (/\ pc = "returned"
     /\ IsTransform
     /\ RankMatches
     /\ Len(call.quantity_axis_list) # Len(self.data_shape))
    => /\ call.raised # "none"
       /\ call.result = <<>>

\* C9: when exactly R WCS axes are not missing and the list given has R
\* entries, pixel_to_world and world_to_pixel return R values.
C9_TransformsReturnRValues ==
    (/\ pc = "returned"
     /\ IsTransform
     /\ RankMatches
     /\ Len(call.quantity_axis_list) = Len(self.data_shape))
    => /\ call.raised = "none"
       /\ Len(call.result) = Len(self.data_shape)

\* C9's case: a cube with a missing WCS axis between two that are not, and
\* pixel_to_world's answer for a list of two values.
C9_Witness ==
    /\ pc = "returned"
    /\ call.op = "pixel_to_world"
    /\ self.missing_axis = <<FALSE, TRUE, FALSE>>
    /\ Len(self.data_shape) = 2
    /\ Len(call.quantity_axis_list) = 2
    /\ call.raised = "none"
    /\ Len(call.result) = 2

\* C10: crop_by_coords raises unless lower_left_corner and dimension_widths
\* both have R entries.
C10_CropChecksLengths ==
    (/\ pc = "returned"
     /\ call.op = "crop_by_coords"
     /\ RankMatches
     /\ ~(/\ Len(call.quantity_axis_list) = Len(self.data_shape)
          /\ Len(call.dimension_widths) = Len(self.data_shape)))
    => call.raised # "none"

\* C18: once the cube is constructed, whatever methods have been called on
\* it (pixel_to_world, world_to_pixel, crop_by_coords, dimensions,
\* extra_coords), its missing_axis flags, its stored extra coordinates and
\* the shape of its data are those of its construction.
C18_CallsLeaveCubeAlone ==
    pc \in {"ready", "returned"} =>
        /\ self.missing_axis = InitMissingAxis(init_args)
        /\ self.data_shape = init_args.data_shape
        /\ self.extra_coords_wcs_axis.is_None = (Len(init_args.extra_coords) = 0)
        /\ self.extra_coords_wcs_axis.value =
                [n \in 1..Len(init_args.extra_coords) |->
                    [name |-> init_args.extra_coords[n].name,
                     wcs_axis |-> data_axis_to_wcs_axis(init_args.extra_coords[n].axis,
                                                        InitMissingAxis(init_args)),
                     value |-> init_args.extra_coords[n].value]]

\* C18's case: a cube with a missing WCS axis and an extra coordinate, whose
\* extra_coords has just been read.
C18_Witness ==
    /\ pc = "returned"
    /\ call.op = "extra_coords"
    /\ ~call.value.is_None
    /\ self.missing_axis = <<FALSE, TRUE, FALSE>>
    /\ Len(self.extra_coords_wcs_axis.value) = 1

\* No WCS axis of the cube is missing.
NoneMissing == \A s \in 1..Len(self.missing_axis) : ~self.missing_axis[s]

\* C20: for a cube without missing WCS axes and a list p of R pixel values,
\* world_to_pixel(pixel_to_world(p)) is p: every value is back at its place.
C20_RoundTripIsIdentity ==
    (/\ pc = "returned"
     /\ call.op = "round_trip"
     /\ NoneMissing
     /\ Len(call.quantity_axis_list) = Len(self.data_shape))
    => /\ call.raised = "none"
       /\ call.result = call.quantity_axis_list

\* C20's case: two data axes, different pixel values on them, counted from
\* 1, and both back in place.
C20_Witness ==
    /\ pc = "returned"
    /\ call.op = "round_trip"
    /\ NoneMissing
    /\ call.origin = 1
    /\ call.quantity_axis_list = <<Quantity(0, pix), Quantity(1, pix)>>
    /\ call.result = <<Quantity(0, pix), Quantity(1, pix)>>

\* A call of which of the two transforms with one value per data axis, on a
\* cube with one non-missing WCS axis per data axis, that returned.
Transformed(op) ==
    /\ pc = "returned"
    /\ call.op = op
    /\ RankMatches
    /\ Len(call.quantity_axis_list) = Len(self.data_shape)
    /\ call.raised = "none"

\* C24: in world_to_pixel, the argument handed to all_world2pix for every
\* missing WCS axis is that axis's reference world value (CRVAL), whether
\* pixels are counted from 0 or from 1.
C24_MissingAxisIsAtReferenceValue ==
    Transformed("world_to_pixel") =>
        \A s \in 1..self.wcs.naxis :
            self.missing_axis[s] => call.list_arguments[s] = self.wcs.crval[s]

\* The anchor of the WCS axis numbered s - 1 when it is missing: for
\* pixel_to_world its reference pixel, as the caller counts pixels (in half
\* pixels); for world_to_pixel its reference world value.
Anchor(s) ==
    IF call.op = "pixel_to_world"
    THEN 2 * (self.wcs.crpix[s] - 1 + call.origin)
    ELSE self.wcs.crval[s]

\* What the WCS answers when called once with the argument vector and the
\* caller's origin.
External ==
    IF call.op = "pixel_to_world"
    THEN all_pix2world(self.wcs, call.list_arguments, call.origin)
    ELSE all_world2pix(self.wcs, call.list_arguments, call.origin)

\* The WCS axis (numbered from 1) paired with the data axis at position i
\* of the caller's list: the highest non-missing WCS axis with the first.
Paired(i) == NonMissing(self.missing_axis)[i] + 1

\* C25: in pixel_to_world and world_to_pixel the argument vector has S
\* entries in the order of the WCS axes: the anchor for a missing axis,
\* else the caller's value for the data axis paired with it (data axis 0
\* with the highest non-missing WCS axis), every value of the caller used
\* once; and what is returned comes from one call of the WCS with this
\* vector and the caller's origin.
C25_ArgumentVectorInSystemOrder ==
    (Transformed("pixel_to_world") \/ Transformed("world_to_pixel")) =>
        /\ Len(call.list_arguments) = self.wcs.naxis
        /\ \A s \in 1..self.wcs.naxis :
                self.missing_axis[s] => call.list_arguments[s] = Anchor(s)
        /\ \A i \in 1..Len(self.data_shape) :
                /\ ~self.missing_axis[Paired(i)]
                /\ call.list_arguments[Paired(i)] = call.quantity_axis_list[i].value
                /\ call.result[i].value = External[Paired(i)]

\* The unit of what is returned for the WCS axis numbered s - 1.
ResultUnit(s) ==
    IF call.op = "pixel_to_world" THEN self.wcs.cunit[s] ELSE pix

\* C26: the list pixel_to_world (world_to_pixel) returns has one entry per
\* non-missing WCS axis, in the order of the data axes: entry i is what the
\* WCS gave for the WCS axis paired with data axis i, the axis that took
\* entry i of the caller's list, in that axis's unit (in pix for
\* world_to_pixel).
C26_ResultInStorageOrder ==
    (Transformed("pixel_to_world") \/ Transformed("world_to_pixel")) =>
        /\ Len(call.result) = CountNonMissing(self.missing_axis)
        /\ \A i \in 1..Len(call.result) :
                /\ ~self.missing_axis[Paired(i)]
                /\ call.result[i] = Quantity(External[Paired(i)], ResultUnit(Paired(i)))
                /\ call.list_arguments[Paired(i)] = call.quantity_axis_list[i].value

\* C26's case: pixel_to_world on a cube whose middle WCS axis is missing,
\* for pixel 0 on data axis 0 and pixel 0.5 on data axis 1: the value of
\* the third WCS axis comes first, that of the first WCS axis second.
C26_Witness ==
    /\ Transformed("pixel_to_world")
    /\ call.origin = 0
    /\ self.missing_axis = <<FALSE, TRUE, FALSE>>
    /\ call.quantity_axis_list = <<Quantity(0, pix), Quantity(1, pix)>>
    /\ call.list_arguments = <<1, 2, 0>>
    /\ call.result = <<Quantity(2, "s"), Quantity(3, "arcsec")>>

----------------------------------------------------------------------------
(* Properties of NDCube.crop_by_coords (SpecCrop). *)

Cropped ==
    /\ pc = "returned"
    /\ call.op = "crop_by_coords"
    /\ call.raised = "none"

\* The pixel values of the two corners before they are rounded, in half
\* pixels: what world_to_pixel gives for lower_left_corner and for
\* lower_left_corner + dimension_widths.
LowerUnrounded ==
    world_to_pixel(self, call.quantity_axis_list, 0).result

UpperUnrounded ==
    world_to_pixel(self,
        [i \in 1..Len(self.data_shape) |->
            QAdd(call.quantity_axis_list[i], call.dimension_widths[i])],
        0).result

\* n is an integer nearest to the pixel value q (x2 half pixels).
Nearest(q, n) == 2 * n - q.value \in {-1, 0, 1}

IsTie(q) == q.value % 2 = 1

Abs(n) == IF n < 0 THEN 0 - n ELSE n

\* n is q rounded, a tie going to the integer of larger magnitude.
RoundsHalfAwayFromZero(q, n) ==
    /\ Nearest(q, n)
    /\ IsTie(q) => Abs(2 * n) > Abs(q.value)

\* n is q rounded, a tie going to the even integer.
RoundsHalfToEven(q, n) ==
    /\ Nearest(q, n)
    /\ IsTie(q) => n % 2 = 0

\* C11 (as claimed): crop_by_coords rounds every lower and every upper
\* pixel boundary to the nearest integer, a boundary halfway between two
\* integers to the one of larger magnitude.
C11_CropRoundsHalfAwayFromZero ==
    Cropped =>
        \A i \in 1..Len(self.data_shape) :
            /\ RoundsHalfAwayFromZero(LowerUnrounded[i], call.lower_pixels[i])
            /\ RoundsHalfAwayFromZero(UpperUnrounded[i], call.upper_pixels[i])

\* C11 (amended): crop_by_coords rounds every lower and every upper pixel
\* boundary to the nearest integer, a boundary halfway between two integers
\* to the even one (-0.5 -> 0, 0.5 -> 0, 1.5 -> 2, 2.5 -> 2), by the same
\* rule for both boundaries.
C11_CropRoundsHalfToEven ==
    Cropped =>
        \A i \in 1..Len(self.data_shape) :
            /\ RoundsHalfToEven(LowerUnrounded[i], call.lower_pixels[i])
            /\ RoundsHalfToEven(UpperUnrounded[i], call.upper_pixels[i])

\* C11's case: a crop whose lower boundary is the tie -0.5, rounded to 0,
\* and whose upper boundary is the tie 1.5, rounded to 2.
C11_Witness ==
    /\ Cropped
    /\ \E i \in 1..Len(self.data_shape) :
        /\ LowerUnrounded[i].value = -1
        /\ call.lower_pixels[i] = 0
        /\ UpperUnrounded[i].value = 3
        /\ call.upper_pixels[i] = 2

\* C12: in a crop, on every data axis where the rounded upper boundary is
\* not above the rounded lower one, negative boundaries included, the
\* cropped cube has extent zero.
C12_EmptyRangeIsZeroExtent ==
    Cropped =>
        \A i \in 1..Len(self.data_shape) :
            call.upper_pixels[i] <= call.lower_pixels[i] => call.shape[i] = 0

\* The region lies inside the array: on every data axis the two boundaries,
\* before they are rounded, are pixel values from 0 to the axis's length.
InsideArray ==
    \A i \in 1..Len(self.data_shape) :
        /\ 0 <= LowerUnrounded[i].value
        /\ LowerUnrounded[i].value <= UpperUnrounded[i].value
        /\ UpperUnrounded[i].value <= 2 * self.data_shape[i]

\* The width is 0 on data axis j and, on every other data axis, more than
\* least world units (a pixel is two world units wide).
ZeroWidthOnOne(j, least) ==
    /\ call.dimension_widths[j].value = 0
    /\ \A i \in 1..Len(self.data_shape) :
            i # j => call.dimension_widths[i].value > least

ZeroExtentOnOne(j) ==
    /\ call.shape[j] = 0
    /\ \A i \in 1..Len(self.data_shape) : i # j => call.shape[i] # 0

\* C21 (as claimed): a crop inside the array with width 0 on one data axis
\* and positive widths on the others has extent zero on that axis and on no
\* other.
C21_ZeroWidthIsZeroExtentOnOneAxis ==
    (Cropped /\ InsideArray) =>
        \A j \in 1..Len(self.data_shape) :
            ZeroWidthOnOne(j, 0) => ZeroExtentOnOne(j)

\* C21 (amended): a crop inside the array with width 0 on one data axis and
\* widths of more than one pixel on the others has extent zero on that axis
\* and on no other.  (A positive width of a pixel or less can round to
\* extent zero: 0 and 0.5 both round to 0, 1.5 and 2.5 both to 2.)
C21_ZeroWidthAndWideOthers ==
    (Cropped /\ InsideArray) =>
        \A j \in 1..Len(self.data_shape) :
            ZeroWidthOnOne(j, 2) => ZeroExtentOnOne(j)

\* C21's case: two data axes, the region from pixel 0 on both, of width 0
\* on the first and of two pixels on the second.
C21_Witness ==
    /\ Cropped
    /\ InsideArray
    /\ Len(self.data_shape) = 2
    /\ LowerUnrounded[1].value = 0
    /\ ZeroWidthOnOne(1, 2)
    /\ call.dimension_widths[2].value = 4
    /\ call.shape = <<0, 2>>

\* The indices of data axis i that the cropped cube keeps.
Kept(i) == SliceIndices(call.slic[i], self.data_shape[i])

\* C29: along every data axis the cropped cube holds only elements whose
\* index in the original lies from the rounded lower boundary up to, not
\* including, the rounded upper one; a negative boundary selects nothing
\* counted from the end of the axis.
C29_CropKeepsOnlyTheRange ==
    Cropped =>
        \A i \in 1..Len(self.data_shape) :
            /\ call.shape[i] = Cardinality(Kept(i))
            /\ \A k \in Kept(i) :
                    call.lower_pixels[i] <= k /\ k < call.upper_pixels[i]

\* The world coordinates of the array's corners: of pixel 0 on every data
\* axis, and of the pixel one past the last on every data axis.
MinCorner ==
    pixel_to_world(self,
        [i \in 1..Len(self.data_shape) |-> Quantity(0, pix)], 0).result

FarCorner ==
    pixel_to_world(self,
        [i \in 1..Len(self.data_shape) |-> Quantity(2 * self.data_shape[i], pix)],
        0).result

\* The full world extent of every data axis.
FullWidths ==
    [i \in 1..Len(self.data_shape) |->
        Quantity(FarCorner[i].value - MinCorner[i].value, MinCorner[i].unit)]

----------------------------------------------------------------------------
(* Properties of NDCube.extra_coords (SpecExtra). *)

====
